---- MODULE Spec2Model ----
(***************************************************************************)
(* Intent routing and session-state engine of snipslistener.py:            *)
(* SessionManager (the per-session action gateway) and the dispatch        *)
(* callbacks of SnipsListener (_handle_intent, _do_generator_turn,         *)
(* _handle_session_ended, _handle_hotword_detected).                       *)
(*                                                                         *)
(* One action is one call of a dispatch callback, run to completion,       *)
(* including every handler it invokes.  Application handlers are arbitrary *)
(* code: what a handler does in one invocation is drawn from a bounded set *)
(* of behaviours.  A plain handler calls the gateway it was given a        *)
(* bounded number of times and then returns or raises; a generator handler *)
(* talks to the engine through the values it yields or returns.            *)
(*                                                                         *)
(* Spec runs one session against the whole skill; SpecPair interleaves two *)
(* sessions on fewer inputs.                                               *)
(*                                                                         *)
(* A Python string is modelled as the sequence of its pieces, the          *)
(* separator ":" being a piece of its own; an optional value (None or x)   *)
(* as the set {} or {x}.                                                   *)
(***************************************************************************)
EXTENDS Integers, Sequences, FiniteSets, TLC

VARIABLES suspended_sessions, session_managers, published, steps, escaped, last,
          gateway_history

vars == <<suspended_sessions, session_managers, published, steps, escaped, last,
          gateway_history>>

(***************************************************************************)
(* Bounds and the universe of inputs                                       *)
(***************************************************************************)
MaxCalls == 2

Sessions == {"s1"}

SiteId == "default"

Reasons == {"nominal", "abortedByUser"}

\* What can be wrong with an inbound message.  "payload": the JSON does not
\* parse, the topic has the wrong shape, or a field read at the top of the
\* callback is missing.  "field": a field read later is missing (input,
\* probability or a slot field of an intent; modelId or siteId of a hotword).
Defects == {"payload", "field"}

IntentNames ==
    { <<"foo">>, <<"ns", ":", "foo">>, <<"other", ":", "foo">>,
      <<"bar">>, <<"ns", ":", "bar">>, <<"other", ":", "bar">>,
      <<"ns", ":", "foo", ":", "x">>, <<"multi">> }

None == {}

Some(x) == {x}

SeqsUpTo(S, n) == UNION { [1..k -> S] : k \in 0..n }

Remove(f, k) == [x \in DOMAIN f \ {k} |-> f[x]]

Put(f, k, v) == [x \in DOMAIN f \cup {k} |-> IF x = k THEN v ELSE f[x]]

(***************************************************************************)
(* The skill: the handler registry built by SnipsListener.__init__         *)
(***************************************************************************)
IsGeneratorFunction(h) == h \in {"g1", "g2"}

intent_handlers ==
    LET keys == { <<<<"foo">>, None>>, <<<<"foo">>, Some(<<"ns">>)>>,
                  <<<<"bar">>, Some(<<"ns">>)>>, <<<<"multi">>, None>> }
    IN [k \in keys |->
          CASE k = <<<<"foo">>, None>> -> <<"g1">>
            [] k = <<<<"foo">>, Some(<<"ns">>)>> -> <<"p1">>
            [] k = <<<<"bar">>, Some(<<"ns">>)>> -> <<"g2">>
            [] k = <<<<"multi">>, None>> -> <<"g1", "g2">>]

session_ended_handlers == {"e1", "e2"}

hotword_detected_handlers == {"w1", "w2"}

\* The order in which __init__ meets the handlers: dir() lists the
\* attribute names sorted.
registration_order(S) ==
    CASE S = {"e1", "e2"} -> <<"e1", "e2">>
      [] S = {"w1", "w2"} -> <<"w1", "w2">>

(***************************************************************************)
(* What application code may do in one invocation                          *)
(***************************************************************************)
GatewayOps == {"continue_session", "say", "end_session"}

PlainBehaviours ==
    [calls : SeqsUpTo(GatewayOps, MaxCalls), raises : BOOLEAN]

\* The value a generator produces at a suspension point.
TurnValues ==
    { [shape |-> "str", text |-> "T1", filters |-> <<>>],
      [shape |-> "pair", text |-> "T2", filters |-> <<"F1", "F2">>],
      [shape |-> "pair", text |-> "T2", filters |-> <<>>],
      [shape |-> "triple", text |-> "", filters |-> <<>>],
      [shape |-> "nolen", text |-> "", filters |-> <<>>] }

\* One step of a generator: it yields a turn value, returns a final value
\* (the empty text stands for None as well: both are falsy), or raises.
Outcomes ==
    { [kind |-> "yield", turn |-> t, value |-> ""] : t \in TurnValues }
    \cup { [kind |-> "return", turn |-> [shape |-> "none", text |-> "", filters |-> <<>>],
            value |-> v] : v \in {"", "V"} }
    \cup { [kind |-> "raise", turn |-> [shape |-> "none", text |-> "", filters |-> <<>>],
            value |-> ""] }

\* What the generator does with a TypeError thrown into it.
ThrowOutcomes == {"raise", "yield", "return"}

GenBehaviours ==
    { [out |-> o, thrown |-> "raise"] : o \in { x \in Outcomes : x.turn.shape # "triple" } }
    \cup { [out |-> o, thrown |-> t] :
             o \in { x \in Outcomes : x.turn.shape = "triple" }, t \in ThrowOutcomes }

\* A finished generator answers every send() with StopIteration(None).
Exhausted ==
    [out |-> [kind |-> "return", turn |-> [shape |-> "none", text |-> "", filters |-> <<>>],
              value |-> ""],
     thrown |-> "raise"]

(***************************************************************************)
(* SessionManager.  w is the state a callback works on: the two maps, the  *)
(* transport's list of publish calls, and whether an exception is in       *)
(* flight.                                                                 *)
(***************************************************************************)
publish(w, topic, payload) ==
    [w EXCEPT !.pub = Append(@, [topic |-> topic, payload |-> payload])]


\* Variant: the intentFilter key is written whether or not filters were given.
continue_session_keyed(w, s, text, intent_filters) ==
    IF w.mgrs[s].ended
    THEN w
    ELSE publish(w, "hermes/dialogueManager/continueSession",
                 [sessionId |-> s, text |-> text, intentFilter |-> intent_filters])

continue_session(w, s, text, intent_filters) ==
    IF w.mgrs[s].ended
    THEN w
    ELSE publish(w, "hermes/dialogueManager/continueSession",
                 IF intent_filters # <<>>
                 THEN [sessionId |-> s, text |-> text, intentFilter |-> intent_filters]
                 ELSE [sessionId |-> s, text |-> text])


\* Variant: say() without the guard on the ended flag.
say_unguarded(w, s, text) ==
    publish(w, "hermes/tts/say",
            [sessionId |-> s, siteId |-> w.mgrs[s].site_id, text |-> text])


\* Variant: say() marks the session ended, as end_session() does.
say_ends(w, s, text) ==
    IF w.mgrs[s].ended
    THEN w
    ELSE [publish(w, "hermes/tts/say",
                  [sessionId |-> s, siteId |-> w.mgrs[s].site_id, text |-> text])
            EXCEPT !.mgrs[s].ended = TRUE]

say(w, s, text) ==
    IF w.mgrs[s].ended
    THEN w
    ELSE publish(w, "hermes/tts/say",
                 [sessionId |-> s, siteId |-> w.mgrs[s].site_id, text |-> text])


\* Variant: end_session() that publishes but forgets to set the flag.
end_session_no_flag(w, s, text) ==
    IF w.mgrs[s].ended
    THEN w
    ELSE publish(w, "hermes/dialogueManager/endSession",
                 IF text # "" THEN [sessionId |-> s, text |-> text]
                              ELSE [sessionId |-> s])

end_session(w, s, text) ==
    IF w.mgrs[s].ended
    THEN w
    ELSE [publish(w, "hermes/dialogueManager/endSession",
                  IF text # "" THEN [sessionId |-> s, text |-> text]
                               ELSE [sessionId |-> s])
            EXCEPT !.mgrs[s].ended = TRUE]

GatewayCall(w, s, op) ==
    CASE op = "continue_session" -> continue_session(w, s, "hi", <<>>)
      [] op = "say" -> say(w, s, "hi")
      [] op = "end_session" -> end_session(w, s, "bye")

RECURSIVE GatewayCalls(_, _, _)
GatewayCalls(w, s, calls) ==
    IF calls = <<>> THEN w
    ELSE GatewayCalls(GatewayCall(w, s, Head(calls)), s, Tail(calls))

\* A plain handler h(intent_obj): its gateway calls, then return or raise.
PlainHandler(w, s, beh) ==
    [GatewayCalls(w, s, beh.calls) EXCEPT !.exc = beh.raises]

(***************************************************************************)
(* SnipsListener._do_generator_turn                                        *)
(***************************************************************************)
\* The generator object after the step: finished once it returned or raised.
GenAfter(gen, out) ==
    [gen EXCEPT !.done = (out.kind # "yield")]

\* gen_obj.throw(TypeError): the generator re-raises, finishes, or catches
\* the error and yields again (throw() then returns that value).
GenAfterThrow(gen, thrown) ==
    [gen EXCEPT !.done = (thrown # "yield")]

\* A generator that is the suspended entry of s is that same object: what
\* the step does to it shows in the map.
Mutate(w, s, is_start, gen) ==
    IF ~is_start /\ s \in DOMAIN w.susp
    THEN [w EXCEPT !.susp[s] = gen]
    ELSE w


\* Variant: completion leaves the suspended entry in place.
on_stop_iteration_keep(w, s, value) == end_session(w, s, value)

\* except StopIteration: drop the suspended entry, end the session.
on_stop_iteration(w, s, value) ==
    end_session([w EXCEPT !.susp = Remove(@, s)], s, value)


\* Variant: the filters of a (text, filters) pair are not passed on.
on_turn_no_filters(w, gen, s, is_start, turn, thrown) ==
    CASE turn.shape \in {"str", "pair"} ->
           continue_session([w EXCEPT !.susp = Put(@, s, gen)], s, turn.text, <<>>)
      [] turn.shape = "triple" ->
           [Mutate(w, s, is_start, GenAfterThrow(gen, thrown))
              EXCEPT !.exc = (thrown # "yield")]
      [] turn.shape = "nolen" -> [w EXCEPT !.exc = TRUE]


\* Variant: a (text, filters) pair is retained without continue_session.
on_turn_silent_pair(w, gen, s, is_start, turn, thrown) ==
    CASE turn.shape = "str" ->
           continue_session([w EXCEPT !.susp = Put(@, s, gen)], s, turn.text, <<>>)
      [] turn.shape = "pair" -> [w EXCEPT !.susp = Put(@, s, gen)]
      [] turn.shape = "triple" ->
           [Mutate(w, s, is_start, GenAfterThrow(gen, thrown))
              EXCEPT !.exc = (thrown # "yield")]
      [] turn.shape = "nolen" -> [w EXCEPT !.exc = TRUE]

\* else: the generator produced a turn value.
on_turn(w, gen, s, is_start, turn, thrown) ==
    CASE turn.shape = "str" ->
           continue_session([w EXCEPT !.susp = Put(@, s, gen)], s, turn.text, <<>>)
      [] turn.shape = "pair" ->
           continue_session([w EXCEPT !.susp = Put(@, s, gen)], s, turn.text, turn.filters)
      [] turn.shape = "triple" ->
           \* gen_obj.throw(TypeError(...)): what comes out of throw() is
           \* not caught here.
           [Mutate(w, s, is_start, GenAfterThrow(gen, thrown))
              EXCEPT !.exc = (thrown # "yield")]
      [] turn.shape = "nolen" ->
           \* len(turn) raises TypeError; nothing is thrown into the generator.
           [w EXCEPT !.exc = TRUE]

do_generator_turn(w, gen_obj, s, is_start, beh) ==
    LET b == IF gen_obj.done THEN Exhausted ELSE beh
        out == b.out
        gen == GenAfter(gen_obj, out)
        w0 == Mutate(w, s, is_start, gen)
    IN CASE out.kind = "raise" -> [w0 EXCEPT !.exc = TRUE]
         [] out.kind = "return" -> on_stop_iteration(w0, s, out.value)
         [] out.kind = "yield" -> on_turn(w0, gen, s, is_start, out.turn, b.thrown)

(***************************************************************************)
(* History of the callback in progress: one record per handler invocation, *)
(* with the behaviour the handler showed, the gateway's flag when it       *)
(* started and the publish calls made during it.                           *)
(***************************************************************************)
EndedOf(w, s) == s \in DOMAIN w.mgrs /\ w.mgrs[s].ended

Recorded(before, after, s, h, mode, beh) ==
    [after EXCEPT !.steps =
        Append(@, [h |-> h, mode |-> mode, beh |-> beh,
                   endedBefore |-> EndedOf(before, s),
                   pub |-> SubSeq(after.pub, Len(before.pub) + 1, Len(after.pub)),
                   exc |-> after.exc])]

(***************************************************************************)
(* SnipsListener._handle_intent                                            *)
(***************************************************************************)
FirstColon(name) ==
    IF \E i \in 1..Len(name) : name[i] = ":"
    THEN CHOOSE i \in 1..Len(name) :
           /\ name[i] = ":"
           /\ \A j \in 1..(i - 1) : name[j] # ":"
    ELSE 0

\* intent_data['intentName'].split(':', 1)
split_name(name) ==
    LET i == FirstColon(name)
    IN IF i = 0 THEN <<name>>
       ELSE <<SubSeq(name, 1, i - 1), SubSeq(name, i + 1, Len(name))>>

lookup(name) ==
    LET sp == split_name(name)
    IN IF Len(sp) = 1 THEN <<sp[1], None>> ELSE <<sp[2], Some(sp[1])>>


\* Variant: indexing the defaultdict, which answers a missing key with [].
Get_default(key) ==
    IF key \in DOMAIN intent_handlers THEN Some(intent_handlers[key]) ELSE Some(<<>>)

\* self._intent_handlers.get(key)
Get(key) ==
    IF key \in DOMAIN intent_handlers THEN Some(intent_handlers[key]) ELSE None


\* Variant: no second lookup without the namespace.
handlers_no_fallback(name) == Get(lookup(name))

handlers(name) ==
    LET lk == lookup(name)
        first == Get(lk)
    IN IF first = None /\ lk[2] # None THEN Get(<<lk[1], None>>) ELSE first

NewGenerator(h) == [h |-> h, done |-> FALSE]

\* One pass of the loop over the matching handlers; the loop's except
\* clause swallows whatever the handler raised.
InvokeHandler(w, s, h, beh) ==
    LET after == IF IsGeneratorFunction(h)
                 THEN do_generator_turn(w, NewGenerator(h), s, TRUE, beh)
                 ELSE PlainHandler(w, s, beh)
    IN [Recorded(w, after, s, h,
                 IF IsGeneratorFunction(h) THEN "start" ELSE "call", beh)
          EXCEPT !.exc = FALSE]


\* Variant: the try block around the loop, not inside it: the first handler
\* that raises ends the loop.
RECURSIVE RunHandlers_until_error(_, _, _, _)
RunHandlers_until_error(w, s, hs, behs) ==
    IF hs = <<>> THEN w
    ELSE LET w1 == InvokeHandler(w, s, Head(hs), Head(behs))
         IN IF w1.steps[Len(w1.steps)].exc THEN w1
            ELSE RunHandlers_until_error(w1, s, Tail(hs), Tail(behs))

RECURSIVE RunHandlers(_, _, _, _)
RunHandlers(w, s, hs, behs) ==
    IF hs = <<>> THEN w
    ELSE RunHandlers(InvokeHandler(w, s, Head(hs), Head(behs)), s, Tail(hs), Tail(behs))


\* Variant: a new SessionManager is made for every event, replacing the one
\* in the map.
WithManager_fresh(w, s) ==
    [w EXCEPT !.mgrs = Put(@, s, [site_id |-> SiteId, ended |-> FALSE])]

\* The session manager of s, created on first use.
WithManager(w, s) ==
    IF s \in DOMAIN w.mgrs THEN w
    ELSE [w EXCEPT !.mgrs = Put(@, s, [site_id |-> SiteId, ended |-> FALSE])]

\* beh: the behaviour of the resumed generator; behs: one behaviour per
\* matching handler.
handle_intent(w, s, name, beh, behs) ==
    IF s \in DOMAIN w.susp
    THEN LET gen_obj == w.susp[s]
             w1 == WithManager(w, s)
             b == IF gen_obj.done THEN Exhausted ELSE beh
         IN Recorded(w1, do_generator_turn(w1, gen_obj, s, FALSE, b),
                     s, gen_obj.h, "resume", b)
    ELSE LET hs == handlers(name)
         IN IF hs = None THEN w
            ELSE RunHandlers(WithManager(w, s), s,
                             CHOOSE l \in hs : TRUE, behs)

BehavioursOf(h) == IF IsGeneratorFunction(h) THEN GenBehaviours ELSE PlainBehaviours

BehaviourLists(hs) ==
    { f \in [1..Len(hs) -> PlainBehaviours \cup GenBehaviours] :
        \A i \in 1..Len(hs) : f[i] \in BehavioursOf(hs[i]) }

(***************************************************************************)
(* SnipsListener._handle_session_ended                                     *)
(***************************************************************************)
\* A session-end handler gets the SessionEnded tuple, which carries no
\* session manager: all the engine sees of it is whether it raised.
SessionEndHandler(w, s, h, raises) ==
    [Recorded(w, [w EXCEPT !.exc = raises], s, h, "session_ended",
              [raises |-> raises])
       EXCEPT !.exc = FALSE]


\* Variant: the first session-end handler that raises ends the loop.
RECURSIVE RunSessionEndHandlers_until_error(_, _, _, _)
RunSessionEndHandlers_until_error(w, s, order, raises) ==
    IF order = <<>> THEN w
    ELSE LET w1 == SessionEndHandler(w, s, Head(order), raises[Head(order)])
         IN IF raises[Head(order)] THEN w1
            ELSE RunSessionEndHandlers_until_error(w1, s, Tail(order), raises)

RECURSIVE RunSessionEndHandlers(_, _, _, _)
RunSessionEndHandlers(w, s, order, raises) ==
    IF order = <<>> THEN w
    ELSE RunSessionEndHandlers(
             SessionEndHandler(w, s, Head(order), raises[Head(order)]),
             s, Tail(order), raises)


\* Variant: the entry is deleted inside the try block, so an exception out
\* of send() skips the deletion.
EndSuspended_in_try(w, s, beh) ==
    IF s \in DOMAIN w.susp
    THEN LET gen_obj == w.susp[s]
             b == IF gen_obj.done THEN Exhausted ELSE beh
             sent == [w EXCEPT !.susp[s] = GenAfter(gen_obj, b.out),
                               !.exc = (b.out.kind # "yield")]
             rec == Recorded(w, sent, s, gen_obj.h, "end_resume", b)
         IN IF sent.exc THEN [rec EXCEPT !.exc = FALSE]
            ELSE [rec EXCEPT !.susp = Remove(@, s)]
    ELSE w

\* Variant: what send() returns is handled like a turn of the dialogue.
EndSuspended_turn(w, s, beh) ==
    IF s \in DOMAIN w.susp
    THEN LET gen_obj == w.susp[s]
             b == IF gen_obj.done THEN Exhausted ELSE beh
             sent == do_generator_turn(w, gen_obj, s, FALSE, b)
         IN [Recorded(w, sent, s, gen_obj.h, "end_resume", b)
               EXCEPT !.susp = Remove(@, s), !.exc = FALSE]
    ELSE w

\* Variant: ending one suspended session clears the whole map.
EndSuspended_all(w, s, beh) ==
    IF s \in DOMAIN w.susp
    THEN LET gen_obj == w.susp[s]
             b == IF gen_obj.done THEN Exhausted ELSE beh
             sent == [w EXCEPT !.susp[s] = GenAfter(gen_obj, b.out),
                               !.exc = (b.out.kind # "yield")]
         IN [Recorded(w, sent, s, gen_obj.h, "end_resume", b)
               EXCEPT !.susp = <<>>, !.exc = FALSE]
    ELSE w

\* gen_obj.send(ended_msg): whatever comes back is dropped, whatever is
\* raised is logged; the entry is deleted either way.
EndSuspended(w, s, beh) ==
    IF s \in DOMAIN w.susp
    THEN LET gen_obj == w.susp[s]
             b == IF gen_obj.done THEN Exhausted ELSE beh
             sent == [w EXCEPT !.susp[s] = GenAfter(gen_obj, b.out),
                               !.exc = (b.out.kind # "yield")]
         IN [Recorded(w, sent, s, gen_obj.h, "end_resume", b)
               EXCEPT !.susp = Remove(@, s), !.exc = FALSE]
    ELSE w


\* Variant: the session manager is deleted without the membership test.
handle_session_ended_unchecked(w, s, beh, order, raises) ==
    LET w1 == EndSuspended(w, s, beh)
        w2 == RunSessionEndHandlers(w1, s, order, raises)
    IN IF s \in DOMAIN w2.mgrs THEN [w2 EXCEPT !.mgrs = Remove(@, s)]
       ELSE [w2 EXCEPT !.exc = TRUE]

handle_session_ended(w, s, beh, order, raises) ==
    LET w1 == EndSuspended(w, s, beh)
        w2 == RunSessionEndHandlers(w1, s, order, raises)
    IN IF s \in DOMAIN w2.mgrs THEN [w2 EXCEPT !.mgrs = Remove(@, s)] ELSE w2

\* The orders in which the set of session-end handlers can be iterated.
Orders(S) ==
    { f \in [1..Cardinality(S) -> S] : \A i, j \in DOMAIN f : f[i] = f[j] => i = j }

(***************************************************************************)
(* SnipsListener._handle_hotword_detected                                  *)
(***************************************************************************)
\* A hotword handler gets the HotwordDetected tuple only.
HotwordHandler(w, h, raises) ==
    [Recorded(w, [w EXCEPT !.exc = raises], "", h, "hotword", [raises |-> raises])
       EXCEPT !.exc = FALSE]


\* Variant: the first hotword handler that raises ends the loop.
RECURSIVE RunHotwordHandlers_until_error(_, _, _)
RunHotwordHandlers_until_error(w, order, raises) ==
    IF order = <<>> THEN w
    ELSE LET w1 == HotwordHandler(w, Head(order), raises[Head(order)])
         IN IF raises[Head(order)] THEN w1
            ELSE RunHotwordHandlers_until_error(w1, Tail(order), raises)

RECURSIVE RunHotwordHandlers(_, _, _)
RunHotwordHandlers(w, order, raises) ==
    IF order = <<>> THEN w
    ELSE RunHotwordHandlers(HotwordHandler(w, Head(order), raises[Head(order)]),
                            Tail(order), raises)

handle_hotword_detected(w, order, raises) == RunHotwordHandlers(w, order, raises)

(***************************************************************************)
(* The callbacks on a malformed message                                    *)
(***************************************************************************)
\* json.loads or data[...] at the top of _handle_intent raises; a field
\* missing further down raises while the IntentDetected is built, after the
\* session manager was looked up or created, and only if there is a
\* generator to resume or a handler list.
handle_intent_malformed(w, s, name, defect) ==
    IF defect = "payload"
    THEN [w EXCEPT !.exc = TRUE]
    ELSE IF s \in DOMAIN w.susp \/ handlers(name) # None
         THEN [WithManager(w, s) EXCEPT !.exc = TRUE]
         ELSE w

\* Every read of the payload precedes the first use of the maps.
handle_session_ended_malformed(w) == [w EXCEPT !.exc = TRUE]

\* The topic split and json.loads are outside the try; data['modelId'] and
\* data['siteId'] are read inside it, once per handler, before the call.
handle_hotword_detected_malformed(w, defect) ==
    IF defect = "payload" THEN [w EXCEPT !.exc = TRUE] ELSE w

(***************************************************************************)
(* The dispatcher: one inbound message per step                            *)
(***************************************************************************)
World ==
    [susp |-> suspended_sessions, mgrs |-> session_managers,
     pub |-> <<>>, steps |-> <<>>, exc |-> FALSE]

\* What has gone out through the gateway of each session id since that
\* gateway entry was created: how many end-session messages (counted up to
\* EndsCap), and whether a continue-session or say message followed one.
EndsCap == 2

Fresh == [ends |-> 0, late |-> FALSE]

Opened(log, new) ==
    [s \in DOMAIN log \cup new |-> IF s \in new THEN Fresh ELSE log[s]]

RECURSIVE Tally(_, _)
Tally(log, pub) ==
    IF pub = <<>> THEN log
    ELSE LET m == Head(pub)
             s == m.payload.sessionId
             e == IF s \in DOMAIN log THEN log[s] ELSE Fresh
             e1 == IF m.topic = "hermes/dialogueManager/endSession"
                   THEN [e EXCEPT !.ends = IF @ < EndsCap THEN @ + 1 ELSE @]
                   ELSE [e EXCEPT !.late = @ \/ e.ends > 0]
         IN Tally(Put(log, s, e1), Tail(pub))

Commit(w, event) ==
    /\ gateway_history' =
         Tally(Opened(gateway_history, DOMAIN w.mgrs \ DOMAIN session_managers), w.pub)
    /\ suspended_sessions' = w.susp
    /\ session_managers' = w.mgrs
    /\ published' = w.pub
    /\ steps' = w.steps
    /\ escaped' = w.exc
    /\ last' = event

IntentEvent(s, name) ==
    [type |-> "IntentDetected", sid |-> s, name |-> name, reason |-> "",
     suspended |-> s \in DOMAIN suspended_sessions,
     gen |-> IF s \in DOMAIN suspended_sessions THEN suspended_sessions[s].h ELSE "",
     managed |-> s \in DOMAIN session_managers,
     ended |-> EndedOf(World, s), defect |-> ""]

SessionEndedEvent(s, reason) ==
    [type |-> "SessionEnded", sid |-> s, name |-> <<>>, reason |-> reason,
     suspended |-> s \in DOMAIN suspended_sessions,
     gen |-> IF s \in DOMAIN suspended_sessions THEN suspended_sessions[s].h ELSE "",
     managed |-> s \in DOMAIN session_managers,
     ended |-> EndedOf(World, s), defect |-> ""]

HotwordEvent ==
    [type |-> "HotwordDetected", sid |-> "", name |-> <<>>, reason |-> "",
     suspended |-> FALSE, gen |-> "", managed |-> FALSE, ended |-> FALSE,
     defect |-> ""]

\* A malformed message on the topic of events of type t.
MalformedEvent(t, s, name, defect) ==
    [type |-> "Malformed", sid |-> s, name |-> name, reason |-> t,
     suspended |-> s \in DOMAIN suspended_sessions,
     gen |-> IF s \in DOMAIN suspended_sessions THEN suspended_sessions[s].h ELSE "",
     managed |-> s \in DOMAIN session_managers,
     ended |-> EndedOf(World, s), defect |-> defect]

Init ==
    /\ suspended_sessions = <<>>
    /\ session_managers = <<>>
    /\ published = <<>>
    /\ steps = <<>>
    /\ escaped = FALSE
    /\ gateway_history = <<>>
    /\ last = [type |-> "none", sid |-> "", name |-> <<>>, reason |-> "",
               suspended |-> FALSE, gen |-> "", managed |-> FALSE, ended |-> FALSE,
               defect |-> ""]

HandleIntent(s, name) ==
    IF s \in DOMAIN suspended_sessions
    THEN \E beh \in (IF suspended_sessions[s].done THEN {Exhausted} ELSE GenBehaviours) :
           Commit(handle_intent(World, s, name, beh, <<>>), IntentEvent(s, name))
    ELSE LET hs == handlers(name)
         IN IF hs = None
            THEN Commit(handle_intent(World, s, name, Exhausted, <<>>), IntentEvent(s, name))
            ELSE \E behs \in BehaviourLists(CHOOSE l \in hs : TRUE) :
                   Commit(handle_intent(World, s, name, Exhausted, behs), IntentEvent(s, name))

HandleSessionEnded(s, reason) ==
    \E beh \in (IF s \in DOMAIN suspended_sessions /\ ~suspended_sessions[s].done
                THEN GenBehaviours ELSE {Exhausted}) :
      \E order \in Orders(session_ended_handlers) :
        \E raises \in [session_ended_handlers -> BOOLEAN] :
          Commit(handle_session_ended(World, s, beh, order, raises),
                 SessionEndedEvent(s, reason))

HandleHotwordDetected ==
    \E order \in Orders(hotword_detected_handlers) :
      \E raises \in [hotword_detected_handlers -> BOOLEAN] :
        Commit(handle_hotword_detected(World, order, raises), HotwordEvent)

MalformedIntent(s, name, defect) ==
    Commit(handle_intent_malformed(World, s, name, defect),
           MalformedEvent("IntentDetected", s, name, defect))

MalformedSessionEnded(s) ==
    Commit(handle_session_ended_malformed(World),
           MalformedEvent("SessionEnded", s, <<>>, "payload"))

MalformedHotword(defect) ==
    Commit(handle_hotword_detected_malformed(World, defect),
           MalformedEvent("HotwordDetected", "", <<>>, defect))

Next ==
    \/ \E s \in Sessions, name \in IntentNames : HandleIntent(s, name)
    \/ \E s \in Sessions, reason \in Reasons : HandleSessionEnded(s, reason)
    \/ HandleHotwordDetected
    \/ \E s \in Sessions, name \in IntentNames, defect \in Defects :
         MalformedIntent(s, name, defect)
    \/ \E s \in Sessions : MalformedSessionEnded(s)
    \/ \E defect \in Defects : MalformedHotword(defect)

Spec == Init /\ [][Next]_vars

\* Two sessions interleaved, on the names that reach the plain handler and
\* a generator: the same callbacks under a smaller set of inputs.
PairSessions == {"s1", "s2"}

PairNames == { <<"foo">>, <<"ns", ":", "foo">> }

PairReasons == {"nominal"}

NextPair ==
    \/ \E s \in PairSessions, name \in PairNames : HandleIntent(s, name)
    \/ \E s \in PairSessions, reason \in PairReasons : HandleSessionEnded(s, reason)

SpecPair == Init /\ [][NextPair]_vars

(***************************************************************************)
(* Properties                                                              *)
(***************************************************************************)
ContinueTopic == "hermes/dialogueManager/continueSession"

EndTopic == "hermes/dialogueManager/endSession"

IsIntent == last.type = "IntentDetected"

IsSessionEnded == last.type = "SessionEnded"

NewSession == IsIntent /\ ~last.suspended

Resumed == IsIntent /\ last.suspended

IsGenStep(st) == st.mode \in {"start", "resume"}

Yielded(st, shapes) ==
    /\ IsGenStep(st)
    /\ st.beh.out.kind = "yield"
    /\ st.beh.out.turn.shape \in shapes

Completed(st) == IsGenStep(st) /\ st.beh.out.kind = "return"

Raised(st) ==
    \/ st.mode = "call" /\ st.beh.raises
    \/ IsGenStep(st) /\ st.beh.out.kind = "raise"

EndedNow(s) == s \in DOMAIN session_managers /\ session_managers[s].ended

\* C1: once a session manager's ended flag is true, further calls of
\* continue_session, say and end_session publish nothing and leave it true:
\* an event that finds the gateway ended publishes nothing, no handler
\* invocation that starts on an ended gateway publishes, nothing is
\* published after an end-session message, and the flag is still set after
\* the event.
C1_EndedGatewayIsSilent ==
    /\ \A i \in DOMAIN steps : steps[i].endedBefore => steps[i].pub = <<>>
    /\ \A i \in DOMAIN published : published[i].topic = EndTopic => i = Len(published)
    /\ IsIntent /\ last.ended => published = <<>> /\ EndedNow(last.sid)
    /\ IsIntent /\ (\E i \in DOMAIN published : published[i].topic = EndTopic)
         => EndedNow(last.sid)

C1_Witness ==
    /\ IsIntent /\ last.ended
    /\ \E i \in DOMAIN steps :
         /\ steps[i].mode = "call"
         /\ steps[i].beh.calls = <<"say", "end_session">>
    /\ published = <<>>
    /\ EndedNow(last.sid)

\* C2: for a session with no suspended entry and no gateway entry, an
\* IntentDetected resolved to a single generator handler whose first step
\* yields the string T publishes exactly one message, continueSession with
\* payload {sessionId, text: T} and no intentFilter key, and leaves the
\* session with a suspended entry and a gateway entry.
C2_FirstTurnContinues ==
    ( /\ NewSession /\ ~last.managed
      /\ Len(steps) = 1
      /\ Yielded(steps[1], {"str"}) )
    => /\ Len(published) = 1
       /\ published[1].topic = ContinueTopic
       /\ published[1].payload =
            [sessionId |-> last.sid, text |-> steps[1].beh.out.turn.text]
       /\ "intentFilter" \notin DOMAIN published[1].payload
       /\ last.sid \in DOMAIN suspended_sessions
       /\ suspended_sessions[last.sid] = [h |-> steps[1].h, done |-> FALSE]
       /\ last.sid \in DOMAIN session_managers

C2_Witness ==
    /\ NewSession /\ ~last.managed
    /\ Len(steps) = 1
    /\ Yielded(steps[1], {"str"})
    /\ Len(published) = 1
    /\ published[1].payload.text = "T1"
    /\ last.sid \in DOMAIN suspended_sessions

\* The event went to the retained computation and to nothing else.
ResumedOnly ==
    /\ Len(steps) = 1
    /\ steps[1].mode = "resume"
    /\ steps[1].h = last.gen

YieldedFilters(st) ==
    Yielded(st, {"pair"}) /\ st.beh.out.turn.filters # <<>>

FilteredContinue(st) ==
    [topic |-> ContinueTopic,
     payload |-> [sessionId |-> last.sid, text |-> st.beh.out.turn.text,
                  intentFilter |-> st.beh.out.turn.filters]]

\* C3 as stated: an IntentDetected for a suspended session is delivered to
\* the retained computation only, whatever its intent name, and a yielded
\* pair (T2, [F1,F2]) is published as {sessionId, text, intentFilter} with
\* the session staying suspended.
C3_Original ==
    Resumed =>
      /\ ResumedOnly
      /\ YieldedFilters(steps[1]) =>
           /\ published = <<FilteredContinue(steps[1])>>
           /\ last.sid \in DOMAIN suspended_sessions

\* C3 amended: as stated, except that the continue-session message is
\* published only when the gateway's ended flag is false; on an ended
\* gateway nothing is published and the session stays suspended all the same.
C3_ResumeBypassesRegistry ==
    Resumed =>
      /\ ResumedOnly
      /\ YieldedFilters(steps[1]) =>
           /\ published = IF last.ended THEN <<>> ELSE <<FilteredContinue(steps[1])>>
           /\ last.sid \in DOMAIN suspended_sessions
           /\ suspended_sessions[last.sid] = [h |-> last.gen, done |-> FALSE]

C3_Witness ==
    /\ Resumed
    /\ last.name = <<"bar">>
    /\ handlers(last.name) = None
    /\ YieldedFilters(steps[1])
    /\ Len(published) = 1
    /\ published[1].payload.intentFilter = <<"F1", "F2">>

EndMessage(s, v) ==
    [topic |-> EndTopic,
     payload |-> IF v = "" THEN [sessionId |-> s]
                 ELSE [sessionId |-> s, text |-> v]]

\* No generator started after step i in the same event suspended.
NoLaterSuspension(i) ==
    \A j \in DOMAIN steps : j > i => ~Yielded(steps[j], {"str", "pair"})

\* C4 as stated: a computation completing with final value V makes the
\* engine publish {sessionId, text: V} to end-session, set the ended flag
\* and purge the session id: no suspended entry and no gateway entry.
C4_Original ==
    IsIntent =>
      \A i \in DOMAIN steps :
        Completed(steps[i]) /\ steps[i].beh.out.value # "" =>
          /\ steps[i].pub = <<EndMessage(last.sid, steps[i].beh.out.value)>>
          /\ last.sid \notin DOMAIN suspended_sessions
          /\ last.sid \notin DOMAIN session_managers

\* C4 amended: on completion the engine calls end_session(V): on a gateway
\* not yet ended this publishes {sessionId, text: V} (no text key for an
\* empty V), on an ended gateway nothing; the ended flag is set afterwards,
\* the suspended entry is removed (none is left after the event unless a
\* handler started later in the same event suspends), and the gateway entry
\* stays in the map.
C4_CompletionEndsSession ==
    IsIntent =>
      \A i \in DOMAIN steps :
        Completed(steps[i]) =>
          /\ steps[i].pub = IF steps[i].endedBefore THEN <<>>
                            ELSE <<EndMessage(last.sid, steps[i].beh.out.value)>>
          /\ EndedNow(last.sid)
          /\ NoLaterSuspension(i) => last.sid \notin DOMAIN suspended_sessions

C4_Witness ==
    /\ Resumed
    /\ Completed(steps[1])
    /\ published = <<EndMessage(last.sid, "V")>>
    /\ EndedNow(last.sid)
    /\ last.sid \notin DOMAIN suspended_sessions

\* The event ran one plain handler, which called end_session.
PlainHandlerEnded ==
    /\ NewSession
    /\ Len(steps) = 1
    /\ steps[1].mode = "call"
    /\ \E k \in DOMAIN steps[1].beh.calls : steps[1].beh.calls[k] = "end_session"

\* The last generator step of the event completed.
RanToCompletion ==
    /\ IsIntent
    /\ \E i \in DOMAIN steps : Completed(steps[i]) /\ NoLaterSuspension(i)

GatewayKeptAfterEnd ==
    PlainHandlerEnded \/ RanToCompletion =>
      /\ last.sid \notin DOMAIN suspended_sessions
      /\ EndedNow(last.sid)

RemovedOnlyBySessionEnded ==
    \A s \in DOMAIN session_managers :
      s \notin DOMAIN session_managers'
        => last'.type = "SessionEnded" /\ last'.sid = s

\* C5: a gateway entry leaves the map only when a SessionEnded event for its
\* session id is processed (checked with two sessions interleaved); after a plain handler called end_session for a
\* new session, and after a generator ran to completion, the session has no
\* suspended entry and still has its (ended) gateway entry.
C5_GatewayRemovedOnlyBySessionEnded ==
    []GatewayKeptAfterEnd /\ [][RemovedOnlyBySessionEnded]_vars

C5_Witness ==
    /\ PlainHandlerEnded
    /\ ~last.managed
    /\ DOMAIN session_managers = {"s1", "s2"}
    /\ published = <<EndMessage(last.sid, "bye")>>
    /\ last.sid \notin DOMAIN suspended_sessions
    /\ EndedNow(last.sid)

\* C6: after a SessionEnded event for S, whatever the reason and the state
\* before, and whatever the resumed computation or the session-end handlers
\* raise, S has no suspended entry and no gateway entry.
C6_SessionEndedPurges ==
    IsSessionEnded =>
      /\ last.sid \notin DOMAIN suspended_sessions
      /\ last.sid \notin DOMAIN session_managers
      /\ ~escaped

C6_Witness ==
    /\ IsSessionEnded
    /\ last.suspended /\ last.ended
    /\ last.reason = "abortedByUser"
    /\ \E i \in DOMAIN steps :
         steps[i].mode = "end_resume" /\ steps[i].beh.out.kind = "raise"
    /\ \E i \in DOMAIN steps :
         steps[i].mode = "session_ended" /\ steps[i].beh.raises
    /\ last.sid \notin DOMAIN suspended_sessions
    /\ last.sid \notin DOMAIN session_managers

\* The lookup as the registry contract words it.
HasColon(name) == \E i \in DOMAIN name : name[i] = ":"

Prefix(name) ==
    CHOOSE p \in { SubSeq(name, 1, k) : k \in 0..Len(name) } :
      /\ Len(p) < Len(name)
      /\ name[Len(p) + 1] = ":"
      /\ \A i \in DOMAIN p : p[i] # ":"

Suffix(name) == SubSeq(name, Len(Prefix(name)) + 2, Len(name))

Registered(n, ns) == <<n, ns>> \in DOMAIN intent_handlers

Reference(name) ==
    IF ~HasColon(name)
    THEN IF Registered(name, {}) THEN intent_handlers[<<name, {}>>] ELSE <<>>
    ELSE IF Registered(Suffix(name), {Prefix(name)})
         THEN intent_handlers[<<Suffix(name), {Prefix(name)}>>]
         ELSE IF Registered(Suffix(name), {})
              THEN intent_handlers[<<Suffix(name), {}>>]
              ELSE <<>>

Invoked == [i \in DOMAIN steps |-> steps[i].h]

\* C7: for a new-session intent the handlers run are those of the reference
\* lookup: the name split on its first ":", the (suffix, prefix) list if
\* registered, else the (suffix, no-namespace) list, else none.  other:foo
\* falls back to the (foo, None) handler, ns:foo runs the (foo, ns) handlers
\* only, and neither bar nor other:bar reaches the handler registered for
\* (bar, ns) alone.
C7_LookupMatchesReference ==
    NewSession =>
      /\ Invoked = Reference(last.name)
      /\ last.name = <<"other", ":", "foo">> => Invoked = intent_handlers[<<<<"foo">>, {}>>]
      /\ last.name = <<"ns", ":", "foo">> => Invoked = intent_handlers[<<<<"foo">>, {<<"ns">>}>>]
      /\ last.name \in {<<"bar">>, <<"other", ":", "bar">>} => Invoked = <<>>

C7_Witness ==
    /\ NewSession
    /\ last.name = <<"other", ":", "foo">>
    /\ ~Registered(<<"foo">>, {<<"other">>})
    /\ Invoked = <<"g1">>

\* C8: an error raised by handler code, on invocation, start or resumption,
\* does not propagate out of the dispatch callback.
C8_HandlerErrorsContained ==
    IsIntent /\ (\E i \in DOMAIN steps : Raised(steps[i])) => ~escaped

\* C9: a turn value that is neither a string nor a pair leads to no publish
\* for that step and to nothing escaping the dispatch of the event.
C9_ViolationContained ==
    IsIntent =>
      \A i \in DOMAIN steps :
        Yielded(steps[i], {"triple", "nolen"}) =>
          /\ steps[i].pub = <<>>
          /\ ~escaped

\* C10: when several matching handlers are generators, the suspended entry
\* kept after the event is the computation of the first of them in
\* registration order.
C10_FirstGeneratorOwnsSession ==
    LET started == { i \in DOMAIN steps : steps[i].mode = "start" }
        first == CHOOSE i \in started : \A j \in started : i <= j
    IN ( /\ NewSession
         /\ Cardinality(started) > 1
         /\ Yielded(steps[first], {"str", "pair"})
         /\ last.sid \in DOMAIN suspended_sessions )
       => suspended_sessions[last.sid].h = steps[first].h

\* C11: for a new-session intent that resolves to a handler list, every
\* handler of the list is invoked (a generator: started) exactly once, in
\* registration order, also after a handler before it raised.
C11_AllHandlersRun ==
    NewSession /\ Reference(last.name) # <<>> =>
      /\ Len(steps) = Len(Reference(last.name))
      /\ \A i \in DOMAIN steps :
           /\ steps[i].h = Reference(last.name)[i]
           /\ steps[i].mode =
                IF IsGeneratorFunction(steps[i].h) THEN "start" ELSE "call"
      /\ ~escaped

C11_Witness ==
    /\ NewSession
    /\ last.name = <<"multi">>
    /\ Len(steps) = 2
    /\ steps[1].h = "g1" /\ Raised(steps[1]) /\ steps[1].exc
    /\ steps[2].h = "g2" /\ steps[2].mode = "start"

IsMalformed == last.type = "Malformed"

\* C12: a malformed inbound message is dropped: no handler is invoked or
\* resumed, nothing is published, and the suspended-session map and the
\* gateway map are as they were before the message.
C12_MalformedDropped ==
    [][last'.type = "Malformed" =>
         /\ steps' = <<>>
         /\ published' = <<>>
         /\ suspended_sessions' = suspended_sessions
         /\ session_managers' = session_managers]_vars

HandlersRun(mode) ==
    LET picked == SelectSeq(steps, LAMBDA st : st.mode = mode)
    IN [i \in DOMAIN picked |-> picked[i].h]

OnceEach(run, S) ==
    /\ Len(run) = Cardinality(S)
    /\ \A h \in S : \E i \in DOMAIN run : run[i] = h

\* C13 as stated: on every SessionEnded each registered session-end handler
\* is invoked exactly once, in registration order, whatever raised before it.
C13_Original ==
    IsSessionEnded =>
      HandlersRun("session_ended") = registration_order(session_ended_handlers)

\* C13 amended: on every SessionEnded each registered session-end handler is
\* invoked exactly once, with or without a suspended entry or a gateway
\* entry, and whatever the resumed computation or another session-end
\* handler raised; the order is that of iterating a set, not the
\* registration order.
C13_EverySessionEndHandlerRuns ==
    IsSessionEnded =>
      /\ OnceEach(HandlersRun("session_ended"), session_ended_handlers)
      /\ ~escaped

C13_Witness ==
    /\ IsSessionEnded
    /\ last.suspended
    /\ steps[1].mode = "end_resume" /\ steps[1].exc
    /\ steps[2].mode = "session_ended" /\ steps[2].exc
    /\ steps[3].mode = "session_ended"
    /\ HandlersRun("session_ended") = <<"e2", "e1">>

\* C14: between events every entry of the suspended-session map holds a
\* computation that has not finished.
C14_SuspendedAreUnfinished ==
    \A s \in DOMAIN suspended_sessions : ~suspended_sessions[s].done

IsContinueFor(m, s) == m.topic = ContinueTopic /\ m.payload.sessionId = s

\* C15 as stated, for an event that runs one handler or resumes: a
\* computation retained as the suspended entry comes with exactly one
\* published continue-session message for the session.
C15_Original ==
    ( /\ IsIntent
      /\ Len(steps) = 1
      /\ Yielded(steps[1], {"str", "pair"})
      /\ last.sid \in DOMAIN suspended_sessions )
    => /\ Len(published) = 1
       /\ IsContinueFor(published[1], last.sid)

\* C15 amended: every generator step that suspends with a valid turn value
\* makes the engine call continue_session exactly once: exactly one
\* continue-session message for the session is published in that step when
\* the gateway's ended flag was false, none when it was already true (the
\* computation is retained all the same, so a session can be Suspended
\* after a dropped continue).
C15_ContinueUnlessEnded ==
    IsIntent =>
      \A i \in DOMAIN steps :
        Yielded(steps[i], {"str", "pair"}) =>
          /\ IF steps[i].endedBefore
             THEN steps[i].pub = <<>>
             ELSE /\ Len(steps[i].pub) = 1
                  /\ IsContinueFor(steps[i].pub[1], last.sid)
                  /\ steps[i].pub[1].payload.text = steps[i].beh.out.turn.text
          /\ i = Len(steps) =>
               /\ last.sid \in DOMAIN suspended_sessions
               /\ suspended_sessions[last.sid] = [h |-> steps[i].h, done |-> FALSE]

C15_Witness ==
    /\ NewSession /\ last.ended
    /\ Len(steps) = 1
    /\ Yielded(steps[1], {"pair"})
    /\ published = <<>>
    /\ last.sid \in DOMAIN suspended_sessions

\* C16: a SessionEnded for a suspended session goes to the retained
\* computation first, then to the session-end handlers, and whatever the
\* computation yields, returns or raises, the engine publishes nothing.
C16_EndDeliveredFirstAndIgnored ==
    IsSessionEnded /\ last.suspended =>
      /\ steps[1].mode = "end_resume"
      /\ steps[1].h = last.gen
      /\ steps[1].pub = <<>>
      /\ \A i \in DOMAIN steps : i > 1 => steps[i].mode = "session_ended"
      /\ published = <<>>

C16_Witness ==
    /\ IsSessionEnded
    /\ last.suspended /\ ~last.ended
    /\ steps[1].mode = "end_resume"
    /\ steps[1].beh.out.kind = "yield"
    /\ steps[1].beh.out.turn.shape = "pair"
    /\ published = <<>>

\* C17: an IntentDetected for a session without a suspended entry whose name
\* resolves to no handler changes nothing: no handler runs, nothing is
\* published, no gateway entry is created.
C17_UnhandledIntentIsNoOp ==
    [][( /\ last'.type = "IntentDetected"
         /\ ~last'.suspended
         /\ Reference(last'.name) = <<>> )
       => /\ steps' = <<>>
          /\ published' = <<>>
          /\ ~escaped'
          /\ suspended_sessions' = suspended_sessions
          /\ session_managers' = session_managers]_vars

C17_Witness ==
    /\ NewSession
    /\ last.name = <<"other", ":", "bar">>
    /\ ~last.managed
    /\ steps = <<>>
    /\ published = <<>>
    /\ last.sid \notin DOMAIN session_managers

\* C18: a SessionEnded for a session id with no suspended entry and no
\* gateway entry raises nothing, publishes nothing and leaves both maps as
\* they were; a second SessionEnded for the same id right after the first
\* leaves the maps as the first left them.
C18_EndOfUnknownSession ==
    [][/\ ( last'.type = "SessionEnded" /\ ~last'.suspended /\ ~last'.managed )
          => /\ ~escaped'
             /\ published' = <<>>
             /\ suspended_sessions' = suspended_sessions
             /\ session_managers' = session_managers
       /\ ( IsSessionEnded /\ last'.type = "SessionEnded" /\ last'.sid = last.sid )
          => /\ suspended_sessions' = suspended_sessions
             /\ session_managers' = session_managers]_vars

C18_Witness ==
    /\ IsSessionEnded
    /\ ~last.suspended /\ ~last.managed
    /\ Len(steps) = 2
    /\ ~escaped
    /\ DOMAIN suspended_sessions # {}

\* C19: a HotwordDetected invokes every registered hotword handler exactly
\* once, also after one of them raised, and leaves the suspended-session
\* map, the gateway map and every ended flag as they were.
C19_HotwordStateless ==
    [][last'.type = "HotwordDetected" =>
         /\ OnceEach([i \in DOMAIN steps' |-> steps'[i].h], hotword_detected_handlers)
         /\ \A i \in DOMAIN steps' : steps'[i].mode = "hotword"
         /\ published' = <<>>
         /\ ~escaped'
         /\ suspended_sessions' = suspended_sessions
         /\ session_managers' = session_managers]_vars

C19_Witness ==
    /\ last.type = "HotwordDetected"
    /\ Len(steps) = 2
    /\ steps[1].exc
    /\ \E s \in DOMAIN session_managers : session_managers[s].ended
    /\ DOMAIN suspended_sessions # {}

MessageOf(s, op) ==
    CASE op = "say" ->
           [topic |-> "hermes/tts/say",
            payload |-> [sessionId |-> s, siteId |-> SiteId, text |-> "hi"]]
      [] op = "continue_session" ->
           [topic |-> ContinueTopic, payload |-> [sessionId |-> s, text |-> "hi"]]
      [] op = "end_session" ->
           [topic |-> EndTopic, payload |-> [sessionId |-> s, text |-> "bye"]]

\* One message per call, up to and including the first end_session.
RECURSIVE ExpectedMessages(_, _)
ExpectedMessages(s, calls) ==
    IF calls = <<>> THEN <<>>
    ELSE <<MessageOf(s, Head(calls))>>
         \o (IF Head(calls) = "end_session" THEN <<>>
             ELSE ExpectedMessages(s, Tail(calls)))

CallsEnd(calls) == \E k \in DOMAIN calls : calls[k] = "end_session"

OpenGatewayCalls ==
    IsIntent =>
      \A i \in DOMAIN steps :
        steps[i].mode = "call" /\ ~steps[i].endedBefore =>
          /\ steps[i].pub = ExpectedMessages(last.sid, steps[i].beh.calls)
          /\ Len(steps) = 1 => (EndedNow(last.sid) <=> CallsEnd(steps[i].beh.calls))

CallsKeepMaps ==
    ( /\ last'.type = "IntentDetected"
      /\ steps' # <<>>
      /\ \A i \in DOMAIN steps' : steps'[i].mode = "call" )
    => /\ suspended_sessions' = suspended_sessions
       /\ DOMAIN session_managers' = DOMAIN session_managers \cup {last'.sid}

\* C20: on a gateway whose ended flag is false, say and continue_session
\* each publish exactly one message and leave the flag false, end_session
\* publishes exactly one end-session message and sets it; none of them
\* changes the suspended-session map or the entries of the gateway map.
C20_OpenGatewayPublishes ==
    []OpenGatewayCalls /\ [][CallsKeepMaps]_vars

C20_Witness ==
    /\ IsIntent
    /\ Len(steps) = 1
    /\ steps[1].mode = "call" /\ ~steps[1].endedBefore
    /\ steps[1].beh.calls = <<"say", "continue_session">>
    /\ Len(published) = 2
    /\ ~EndedNow(last.sid)
    /\ last.sid \in DOMAIN session_managers

\* C21: between events every session id with a suspended entry also has a
\* gateway entry, whatever sequence of IntentDetected, SessionEnded and
\* HotwordDetected events (and malformed messages) came before.
C21_SuspendedHasGateway ==
    DOMAIN suspended_sessions \subseteq DOMAIN session_managers

C21_Witness ==
    /\ Resumed
    /\ steps[1].mode = "resume" /\ steps[1].exc
    /\ escaped
    /\ last.sid \in DOMAIN suspended_sessions
    /\ last.sid \in DOMAIN session_managers

\* What the maps hold for session id t: its suspended entry and its gateway
\* entry with the ended flag, if any.
EntriesOf(susp, mgrs, t) ==
    <<IF t \in DOMAIN susp THEN Some(susp[t]) ELSE None,
      IF t \in DOMAIN mgrs THEN Some(mgrs[t]) ELSE None>>

Isolated ==
    last'.type \in {"IntentDetected", "SessionEnded"} =>
      /\ \A t \in PairSessions \ {last'.sid} :
           EntriesOf(suspended_sessions', session_managers', t)
             = EntriesOf(suspended_sessions, session_managers, t)
      /\ \A i \in DOMAIN published' : published'[i].payload.sessionId = last'.sid

\* C22: processing an IntentDetected or a SessionEnded for session id S
\* leaves the suspended entry, the gateway entry and the ended flag of every
\* other session id as they were, and every message published while
\* processing it carries sessionId S; so a suspended session stays suspended
\* under any interleaving of events for other sessions.
C22_SessionsIsolated == [][Isolated]_vars

C22_Witness ==
    /\ Resumed
    /\ last.sid = "s1"
    /\ published # <<>>
    /\ "s1" \notin DOMAIN suspended_sessions
    /\ "s2" \in DOMAIN suspended_sessions
    /\ EndedNow("s2")

\* C23: from the creation of a session's gateway entry to the next
\* SessionEnded for it, at most one end-session message for the session is
\* published, and no continue-session or say message for it follows that
\* end-session message, however many IntentDetected events arrive and
\* however many handlers match them.
C23_OneEndPerGateway ==
    \A s \in DOMAIN gateway_history :
      /\ gateway_history[s].ends <= 1
      /\ ~gateway_history[s].late

C23_Witness ==
    /\ NewSession /\ last.ended
    /\ last.name = <<"multi">>
    /\ Len(steps) = 2
    /\ Completed(steps[1]) /\ Completed(steps[2])
    /\ published = <<>>
    /\ gateway_history[last.sid].ends = 1

====
